---- MODULE Spec2Model ----
(***************************************************************************)
(* A model of the ICS proxy server (src/proxy.ts, lines 1-135: the         *)
(* token-authenticated server).                                            *)
(*                                                                         *)
(* The process reads ICS_URL and ACCESS_TOKEN from the environment when    *)
(* the module is loaded, calls Deno.serve, and then runs handleRequest     *)
(* once per inbound request.  handleRequest runs synchronously up to its   *)
(* first await, so a request that needs no upstream fetch is answered in   *)
(* one step; a request that passes the token check suspends at the await   *)
(* of fetch() and again at the await of response.text(), and other         *)
(* requests are handled in between.                                        *)
(*                                                                         *)
(* Strings are TLA+ strings; a JavaScript value that may be null or        *)
(* undefined is a record [type, val].                                      *)
(*                                                                         *)
(* Lines 136-236 of src/proxy.ts hold an earlier revision of the same      *)
(* server, without the token check and without the /health route.  It is   *)
(* not the server modelled here; its routing appears only as the variant   *)
(* handleRequestWithoutHealthRoute.                                        *)
(***************************************************************************)
EXTENDS Integers, Sequences, FiniteSets, TLC

VARIABLES
    ICS_URL,           \* Deno.env.get("ICS_URL"), read once at load
    ACCESS_TOKEN,      \* Deno.env.get("ACCESS_TOKEN"), read once at load
    serving,           \* Deno.serve has been called and the process is up
    pc,                \* pc[r]: where the handler of request r stands
    request,           \* request[r]: the inbound Request
    fetches,           \* fetches[r]: calls of fetch() made for request r
    upstreamResponse,  \* upstreamResponse[r]: what fetch() resolved to
    thrown,            \* thrown[r]: the error caught at the handler boundary
    warned,            \* warned[r]: the "not valid ICS" warning was logged
    reply,             \* reply[r]: the Response handleRequest returned
    sent               \* sent[r]: number of Responses returned for r

vars == <<ICS_URL, ACCESS_TOKEN, serving, pc, request, fetches,
          upstreamResponse, thrown, warned, reply, sent>>

(***************************************************************************)
(* Bounds and inputs                                                       *)
(***************************************************************************)
MaxRequests == 2

LongLen == 201

ExcerptLen == 200

Requests == 1..MaxRequests

RECURSIVE Repeat(_, _)
Repeat(s, n) == IF n = 0 THEN "" ELSE s \o Repeat(s, n - 1)

\* JavaScript values
Str(s) == [type |-> "string", val |-> s]

Undefined == [type |-> "undefined", val |-> ""]

Null == [type |-> "null", val |-> ""]

\* What the environment may hold for the two variables.
IcsUrls == {Undefined, Str("https://example.test/cal.ics")}

AccessTokens == {Undefined, Str(""), Str("secret123")}

Methods == {"GET", "POST"}

Paths == {"/calendar.ics", "/health", "/foo"}

Param(k, v) == [key |-> k, value |-> v]

Queries ==
    { <<>>,
      <<Param("token", "")>>,
      <<Param("token", "secret123")>>,
      <<Param("token", "wrong")>>,
      <<Param("other", "secret123")>> }

InboundRequests ==
    [method : Methods, path : Paths, query : Queries]

NoRequest == [method |-> "", path |-> "", query |-> <<>>]

\* Upstream behaviour
IcsBody == "BEGIN:VCALENDAR\nVERSION:2.0\nEND:VCALENDAR"

LongBody == Repeat("x", LongLen)

Bodies == {IcsBody, "Server Error", LongBody}

Statuses == {200, 404, 500}

ReasonPhrase(status) ==
    CASE status = 200 -> "OK"
      [] status = 404 -> "Not Found"
      [] status = 500 -> "Internal Server Error"
      [] OTHER -> ""

\* bodyRead: "unread" until response.text() is awaited, then "ok" or "failed"
UpstreamResponses ==
    { [status |-> s, statusText |-> ReasonPhrase(s), body |-> b, bodyRead |-> "unread"] :
        s \in Statuses, b \in Bodies }

NoUpstreamResponse ==
    [status |-> 0, statusText |-> "", body |-> "", bodyRead |-> "unread"]

\* A TypeError of fetch(): the URL cannot be parsed, or the network failed.
FetchErrors(url) ==
    IF url.type = "string"
    THEN {"error sending request for url"}
    ELSE {"Invalid URL: 'undefined'"}

BodyReadError == "error reading a body from connection"

Error(message) == [isError |-> TRUE, message |-> message]

NoError == [isError |-> FALSE, message |-> ""]

(***************************************************************************)
(* String helpers of the JavaScript runtime                                *)
(***************************************************************************)
Min(a, b) == IF a < b THEN a ELSE b

\* String.prototype.substring(start, end), 0 <= start <= end
substring(s, start, end) == SubSeq(s, start + 1, Min(end, Len(s)))

\* String.prototype.includes(needle)
includes(s, needle) ==
    \E i \in 1..(Len(s) - Len(needle) + 1) :
        SubSeq(s, i, i + Len(needle) - 1) = needle

\* URLSearchParams.get: the first value of the key, or null
RECURSIVE searchParamsGet(_, _)
searchParamsGet(query, key) ==
    IF query = <<>> THEN Null
    ELSE IF Head(query).key = key THEN Str(Head(query).value)
    ELSE searchParamsGet(Tail(query), key)

\* A variant of Falsy that tests only for null and undefined (token == null)
FalsyNullish(v) == v.type \in {"null", "undefined"}

\* A variant of Falsy that tests only for the empty string (token === "")
FalsyEmptyOnly(v) == v.type = "string" /\ v.val = ""

\* !v
Falsy(v) ==
    \/ v.type \in {"null", "undefined"}
    \/ v.type = "string" /\ v.val = ""

\* A variant of StrictNotEquals with the comparison inverted (a === b)
StrictNotEqualsInverted(a, b) == a = b

\* a !== b
StrictNotEquals(a, b) == a # b

\* Response.ok
Ok(response) == 200 <= response.status /\ response.status <= 299

(***************************************************************************)
(* The Responses handleRequest builds                                      *)
(***************************************************************************)
PlainHeaders == [ContentType |-> "text/plain"]

NoReply == [status |-> 0, headers |-> PlainHeaders, body |-> ""]

TokenRequiredResponse ==
    [status |-> 401, headers |-> PlainHeaders,
     body |-> "Unauthorized: Token parameter required"]

InvalidTokenResponse ==
    [status |-> 401, headers |-> PlainHeaders,
     body |-> "Unauthorized: Invalid token"]

CalendarResponse(icsContent) ==
    [status |-> 200,
     headers |-> [ContentType |-> "text/calendar; charset=utf-8",
                  ContentDisposition |-> "attachment; filename=\"calendar.ics\"",
                  CacheControl |-> "no-cache, no-store, must-revalidate",
                  Pragma |-> "no-cache",
                  Expires |-> "0"],
     body |-> icsContent]

HealthResponse ==
    [status |-> 200, headers |-> PlainHeaders, body |-> "OK"]

NotFoundResponse ==
    [status |-> 404, headers |-> PlainHeaders, body |-> "Not Found"]

\* The catch block of handleRequest
ErrorResponse(error) ==
    [status |-> 500, headers |-> PlainHeaders,
     body |-> "Internal Server Error: " \o error.message]

\* The Error downloadICSFile throws on a non-success status
HttpError(response, errorText) ==
    Error("HTTP error! status: " \o ToString(response.status) \o " - "
          \o response.statusText \o "\nResponse body: "
          \o substring(errorText, 0, ExcerptLen) \o "...")

(***************************************************************************)
(* handleRequest up to its first await: either a Response, or the call of  *)
(* downloadICSFile.                                                        *)
(***************************************************************************)
Return(response) == [kind |-> "return", response |-> response]

Download == [kind |-> "download", response |-> NoReply]

\* A variant of handleRequest without the /health route and the token check
handleRequestWithoutHealthRoute(req) ==
    IF req.path = "/calendar.ics" THEN Download
    ELSE Return(NotFoundResponse)

\* A variant of handleRequest that checks the token before it looks at the path
handleRequestTokenFirst(req) ==
    LET token == searchParamsGet(req.query, "token")
    IN  IF req.path = "/health" THEN Return(HealthResponse)
        ELSE IF Falsy(token) THEN Return(TokenRequiredResponse)
        ELSE IF StrictNotEquals(token, ACCESS_TOKEN)
             THEN Return(InvalidTokenResponse)
        ELSE IF req.path = "/calendar.ics" THEN Download
        ELSE Return(NotFoundResponse)

handleRequest(req) ==
    LET path == req.path
        token == searchParamsGet(req.query, "token")
    IN  IF path = "/calendar.ics"
        THEN IF Falsy(token) THEN Return(TokenRequiredResponse)
             ELSE IF StrictNotEquals(token, ACCESS_TOKEN)
                  THEN Return(InvalidTokenResponse)
             ELSE Download
        ELSE IF path = "/health" THEN Return(HealthResponse)
        ELSE Return(NotFoundResponse)

(***************************************************************************)
(* The state machine                                                       *)
(***************************************************************************)
Init ==
    /\ ICS_URL \in IcsUrls
    /\ ACCESS_TOKEN \in AccessTokens
    /\ serving = FALSE
    /\ pc = [r \in Requests |-> "pending"]
    /\ request = [r \in Requests |-> NoRequest]
    /\ fetches = [r \in Requests |-> 0]
    /\ upstreamResponse = [r \in Requests |-> NoUpstreamResponse]
    /\ thrown = [r \in Requests |-> NoError]
    /\ warned = [r \in Requests |-> FALSE]
    /\ reply = [r \in Requests |-> NoReply]
    /\ sent = [r \in Requests |-> 0]

\* import.meta.main: log the configuration and call Deno.serve
Main ==
    /\ ~serving
    /\ serving' = TRUE
    /\ UNCHANGED <<ICS_URL, ACCESS_TOKEN, pc, request, fetches,
                   upstreamResponse, thrown, warned, reply, sent>>

\* The handler returns `response` for request r
Respond(r, response) ==
    /\ reply' = [reply EXCEPT ![r] = response]
    /\ sent' = [sent EXCEPT ![r] = @ + 1]
    /\ pc' = [pc EXCEPT ![r] = "done"]

\* An inbound request arrives: handleRequest runs to its first await
Accept(r, req) ==
    /\ serving
    /\ pc[r] = "pending"
    /\ request' = [request EXCEPT ![r] = req]
    /\ LET step == handleRequest(req)
       IN  IF step.kind = "return"
           THEN /\ Respond(r, step.response)
                /\ UNCHANGED fetches
           ELSE /\ fetches' = [fetches EXCEPT ![r] = @ + 1]
                /\ pc' = [pc EXCEPT ![r] = "awaitFetch"]
                /\ UNCHANGED <<reply, sent>>
    /\ UNCHANGED <<ICS_URL, ACCESS_TOKEN, serving, upstreamResponse,
                   thrown, warned>>

\* await fetch(ICS_URL, ...) resolves with the upstream's response
FetchResolve(r, response) ==
    /\ pc[r] = "awaitFetch"
    /\ ICS_URL.type = "string"
    /\ upstreamResponse' = [upstreamResponse EXCEPT ![r] = response]
    /\ pc' = [pc EXCEPT ![r] =
                IF ~Ok(response) THEN "awaitErrorText" ELSE "awaitText"]
    /\ UNCHANGED <<ICS_URL, ACCESS_TOKEN, serving, request, fetches,
                   thrown, warned, reply, sent>>

\* A variant of FetchReject that calls fetch() once more before giving up
FetchRejectRetry(r, message) ==
    /\ pc[r] = "awaitFetch"
    /\ message \in FetchErrors(ICS_URL)
    /\ IF fetches[r] < 2
       THEN /\ fetches' = [fetches EXCEPT ![r] = @ + 1]
            /\ UNCHANGED <<pc, thrown, reply, sent>>
       ELSE /\ thrown' = [thrown EXCEPT ![r] = Error(message)]
            /\ Respond(r, ErrorResponse(Error(message)))
            /\ UNCHANGED fetches
    /\ UNCHANGED <<ICS_URL, ACCESS_TOKEN, serving, request,
                   upstreamResponse, warned>>

\* await fetch(ICS_URL, ...) rejects: the error reaches the catch block
FetchReject(r, message) ==
    /\ pc[r] = "awaitFetch"
    /\ message \in FetchErrors(ICS_URL)
    /\ thrown' = [thrown EXCEPT ![r] = Error(message)]
    /\ Respond(r, ErrorResponse(Error(message)))
    /\ UNCHANGED <<ICS_URL, ACCESS_TOKEN, serving, request, fetches,
                   upstreamResponse, warned>>

\* Non-success status, the error body is read: throw the HTTP error
ErrorTextResolve(r) ==
    /\ pc[r] = "awaitErrorText"
    /\ upstreamResponse' = [upstreamResponse EXCEPT ![r].bodyRead = "ok"]
    /\ LET error == HttpError(upstreamResponse[r], upstreamResponse[r].body)
       IN  /\ thrown' = [thrown EXCEPT ![r] = error]
           /\ Respond(r, ErrorResponse(error))
    /\ UNCHANGED <<ICS_URL, ACCESS_TOKEN, serving, request, fetches, warned>>

\* A variant of ErrorTextReject without the .catch(): the read error propagates
ErrorTextRejectUncaught(r) ==
    /\ pc[r] = "awaitErrorText"
    /\ upstreamResponse' = [upstreamResponse EXCEPT ![r].bodyRead = "failed"]
    /\ thrown' = [thrown EXCEPT ![r] = Error(BodyReadError)]
    /\ Respond(r, ErrorResponse(Error(BodyReadError)))
    /\ UNCHANGED <<ICS_URL, ACCESS_TOKEN, serving, request, fetches, warned>>

\* Non-success status, the error body cannot be read: .catch() supplies a text
ErrorTextReject(r) ==
    /\ pc[r] = "awaitErrorText"
    /\ upstreamResponse' = [upstreamResponse EXCEPT ![r].bodyRead = "failed"]
    /\ LET error == HttpError(upstreamResponse[r], "Unable to read error response")
       IN  /\ thrown' = [thrown EXCEPT ![r] = error]
           /\ Respond(r, ErrorResponse(error))
    /\ UNCHANGED <<ICS_URL, ACCESS_TOKEN, serving, request, fetches, warned>>

\* A variant of TextResolve in which the ICS check throws instead of warning
TextResolveStrict(r) ==
    /\ pc[r] = "awaitText"
    /\ upstreamResponse' = [upstreamResponse EXCEPT ![r].bodyRead = "ok"]
    /\ LET icsContent == upstreamResponse[r].body
           error == Error("Response does not appear to be valid ICS format")
       IN  IF ~includes(icsContent, "BEGIN:VCALENDAR")
           THEN /\ thrown' = [thrown EXCEPT ![r] = error]
                /\ Respond(r, ErrorResponse(error))
                /\ UNCHANGED warned
           ELSE /\ Respond(r, CalendarResponse(icsContent))
                /\ UNCHANGED <<thrown, warned>>
    /\ UNCHANGED <<ICS_URL, ACCESS_TOKEN, serving, request, fetches>>

\* Success status, the body is read: warn if it is not ICS, return it
TextResolve(r) ==
    /\ pc[r] = "awaitText"
    /\ upstreamResponse' = [upstreamResponse EXCEPT ![r].bodyRead = "ok"]
    /\ LET icsContent == upstreamResponse[r].body
       IN  /\ warned' = [warned EXCEPT ![r] = ~includes(icsContent, "BEGIN:VCALENDAR")]
           /\ Respond(r, CalendarResponse(icsContent))
    /\ UNCHANGED <<ICS_URL, ACCESS_TOKEN, serving, request, fetches, thrown>>

\* A variant of TextReject outside the try block: the rejection is unhandled
TextRejectUnhandled(r) ==
    /\ pc[r] = "awaitText"
    /\ upstreamResponse' = [upstreamResponse EXCEPT ![r].bodyRead = "failed"]
    /\ thrown' = [thrown EXCEPT ![r] = Error(BodyReadError)]
    /\ pc' = [pc EXCEPT ![r] = "crashed"]
    /\ serving' = FALSE
    /\ UNCHANGED <<ICS_URL, ACCESS_TOKEN, request, fetches, warned, reply, sent>>

\* Success status, reading the body fails: the error reaches the catch block
TextReject(r) ==
    /\ pc[r] = "awaitText"
    /\ upstreamResponse' = [upstreamResponse EXCEPT ![r].bodyRead = "failed"]
    /\ thrown' = [thrown EXCEPT ![r] = Error(BodyReadError)]
    /\ Respond(r, ErrorResponse(Error(BodyReadError)))
    /\ UNCHANGED <<ICS_URL, ACCESS_TOKEN, serving, request, fetches, warned>>

\* The steps the handler of request r takes once its awaited I/O completes
HandlerStep(r) ==
    \/ \E response \in UpstreamResponses : FetchResolve(r, response)
    \/ \E message \in FetchErrors(ICS_URL) : FetchReject(r, message)
    \/ ErrorTextResolve(r)
    \/ ErrorTextReject(r)
    \/ TextResolve(r)
    \/ TextReject(r)

Next ==
    \/ Main
    \/ \E r \in Requests, req \in InboundRequests : Accept(r, req)
    \/ \E r \in Requests : HandlerStep(r)

Spec == Init /\ [][Next]_vars


(***************************************************************************)
(* Vocabulary of the claims                                                *)
(***************************************************************************)
HasTokenParam(req) ==
    \E i \in DOMAIN req.query : req.query[i].key = "token"

\* The value of the first token parameter of the query string
PresentedToken(req) ==
    LET i == CHOOSE k \in DOMAIN req.query :
                 /\ req.query[k].key = "token"
                 /\ \A j \in 1..(k - 1) : req.query[j].key # "token"
    IN  req.query[i].value

\* A configuration value is set: a non-empty string
Configured(v) == v.type = "string" /\ v.val # ""

\* The request is for the calendar and presents the configured access token
CalendarWithCorrectToken(r) ==
    /\ request[r].path = "/calendar.ics"
    /\ Configured(ACCESS_TOKEN)
    /\ HasTokenParam(request[r])
    /\ PresentedToken(request[r]) = ACCESS_TOKEN.val

InFlight(r) == pc[r] \in {"awaitFetch", "awaitErrorText", "awaitText"}

Done(r) == pc[r] = "done"

(***************************************************************************)
(* The claims                                                              *)
(***************************************************************************)

\* C1: fetch() is called for a request only if it is a /calendar.ics request
\* whose token query parameter is present and exactly equal to ACCESS_TOKEN;
\* a request with a missing or different token never has a fetch.
C1_FetchOnlyWithCorrectToken ==
    \A r \in Requests :
        fetches[r] > 0 =>
            /\ request[r].path = "/calendar.ics"
            /\ HasTokenParam(request[r])
            /\ Str(PresentedToken(request[r])) = ACCESS_TOKEN

\* One request was refused for its token without a fetch while another, with
\* the correct token, had its fetch issued.
C1_Witness ==
    \E r, q \in Requests :
        /\ Done(r) /\ request[r].path = "/calendar.ics"
        /\ HasTokenParam(request[r]) /\ PresentedToken(request[r]) = "wrong"
        /\ reply[r].status = 401 /\ fetches[r] = 0
        /\ fetches[q] = 1

\* C2: a /calendar.ics request with the correct token has exactly one call of
\* fetch() from the moment it is accepted, whatever the outcome (success,
\* non-success status, network or read failure): never a second call after a
\* failure, and each of two concurrent identical requests has its own.
C2_ExactlyOneFetch ==
    \A r \in Requests :
        (pc[r] # "pending" /\ CalendarWithCorrectToken(r)) => fetches[r] = 1

\* Two identical requests are in flight at once, each with its own fetch.
C2_Witness ==
    \E r, q \in Requests :
        /\ r # q /\ request[r] = request[q]
        /\ pc[r] = "awaitFetch" /\ pc[q] = "awaitFetch"
        /\ fetches[r] = 1 /\ fetches[q] = 1

\* C3: a /calendar.ics request with the correct token whose upstream fetch
\* returned a success status and a body is answered 200 with Content-Type
\* text/calendar; charset=utf-8, Content-Disposition attachment;
\* filename="calendar.ics", and the body of its own upstream response,
\* unmodified, whether or not that body contains BEGIN:VCALENDAR and whatever
\* the other requests are doing.
C3_SuccessRelaysBody ==
    \A r \in Requests :
        ( /\ Done(r) /\ CalendarWithCorrectToken(r)
          /\ upstreamResponse[r].status \in 200..299
          /\ upstreamResponse[r].bodyRead = "ok" )
        => /\ reply[r].status = 200
           /\ reply[r].headers.ContentType = "text/calendar; charset=utf-8"
           /\ reply[r].headers.ContentDisposition = "attachment; filename=\"calendar.ics\""
           /\ reply[r].body = upstreamResponse[r].body

\* A body without BEGIN:VCALENDAR was relayed with 200 (and the warning
\* logged) while another request held a different upstream body.
C3_Witness ==
    \E r, q \in Requests :
        /\ r # q
        /\ Done(r) /\ reply[r].status = 200 /\ warned[r]
        /\ reply[r].body = "Server Error"
        /\ pc[q] = "awaitText" /\ upstreamResponse[q].body = IcsBody

\* C4: a /calendar.ics request with the correct token whose upstream fetch
\* failed is answered 500 with the body 'Internal Server Error: ' followed by
\* the error's message.  For a non-success upstream status N the body contains
\* 'status: N' and ends with an excerpt of at most 200 characters of the
\* upstream body (of a fixed text when that body cannot be read) and '...'.
C4_FailureIs500 ==
    \A r \in Requests :
        (Done(r) /\ CalendarWithCorrectToken(r)) =>
            LET up == upstreamResponse[r]
                text == IF up.bodyRead = "failed"
                        THEN "Unable to read error response" ELSE up.body
                excerpt == SubSeq(text, 1, Min(Len(text), 200))
            IN  /\ up.status = 0 =>
                    /\ reply[r].status = 500
                    /\ \E m \in FetchErrors(ICS_URL) :
                           reply[r].body = "Internal Server Error: " \o m
                /\ (up.status # 0 /\ up.status \notin 200..299) =>
                    /\ reply[r].status = 500
                    /\ reply[r].body =
                           "Internal Server Error: HTTP error! status: "
                           \o ToString(up.status) \o " - " \o up.statusText
                           \o "\nResponse body: " \o excerpt \o "..."
                    /\ includes(reply[r].body, "status: " \o ToString(up.status))
                    /\ Len(excerpt) <= 200
                /\ (up.status \in 200..299 /\ up.bodyRead = "failed") =>
                    /\ reply[r].status = 500
                    /\ reply[r].body = "Internal Server Error: " \o BodyReadError
                /\ thrown[r].isError =>
                    reply[r].body = "Internal Server Error: " \o thrown[r].message

\* An upstream 500 whose body could not be read, and an upstream 404 with a
\* body longer than the excerpt, were both answered 500.
C4_Witness ==
    \E r, q \in Requests :
        /\ Done(r) /\ upstreamResponse[r].status = 500
        /\ upstreamResponse[r].bodyRead = "failed" /\ reply[r].status = 500
        /\ Done(q) /\ upstreamResponse[q].status = 404
        /\ Len(upstreamResponse[q].body) > ExcerptLen /\ reply[q].status = 500

\* C5 as stated: a /calendar.ics request whose token query parameter is
\* present (an empty value included) and not equal to ACCESS_TOKEN is answered
\* 401 'Unauthorized: Invalid token'.
C5_PresentAndDifferentIsInvalidToken ==
    \A r \in Requests :
        ( /\ Done(r) /\ request[r].path = "/calendar.ics"
          /\ HasTokenParam(request[r])
          /\ Str(PresentedToken(request[r])) # ACCESS_TOKEN )
        => /\ reply[r].status = 401
           /\ reply[r].body = "Unauthorized: Invalid token"

\* C5 amended: a /calendar.ics request whose token query parameter is present,
\* not empty and not equal to ACCESS_TOKEN is answered 401 'Unauthorized:
\* Invalid token'; one whose token parameter is present with an empty value is
\* answered 401 'Unauthorized: Token parameter required'.
C5_NonEmptyAndDifferentIsInvalidToken ==
    \A r \in Requests :
        (Done(r) /\ request[r].path = "/calendar.ics" /\ HasTokenParam(request[r]))
        => /\ ( /\ PresentedToken(request[r]) # ""
                /\ Str(PresentedToken(request[r])) # ACCESS_TOKEN )
              => /\ reply[r].status = 401
                 /\ reply[r].body = "Unauthorized: Invalid token"
           /\ PresentedToken(request[r]) = ""
              => /\ reply[r].status = 401
                 /\ reply[r].body = "Unauthorized: Token parameter required"

\* A wrong token was answered 'Invalid token' and an empty one 'Token
\* parameter required', under a configured access token.
C5_Witness ==
    \E r, q \in Requests :
        /\ Configured(ACCESS_TOKEN)
        /\ Done(r) /\ request[r].path = "/calendar.ics"
        /\ request[r].query = <<Param("token", "wrong")>>
        /\ reply[r].body = "Unauthorized: Invalid token"
        /\ Done(q) /\ request[q].path = "/calendar.ics"
        /\ request[q].query = <<Param("token", "")>>
        /\ reply[q].body = "Unauthorized: Token parameter required"

\* C6: a /calendar.ics request without a token query parameter is answered
\* 401 'Unauthorized: Token parameter required', whatever its method and
\* whatever ACCESS_TOKEN is.
C6_MissingTokenIsTokenRequired ==
    \A r \in Requests :
        (Done(r) /\ request[r].path = "/calendar.ics" /\ ~HasTokenParam(request[r]))
        => /\ reply[r].status = 401
           /\ reply[r].body = "Unauthorized: Token parameter required"
           /\ reply[r].headers.ContentType = "text/plain"

\* A POST without any query and a GET with another parameter only were both
\* answered, under a configured access token.
C6_Witness ==
    \E r, q \in Requests :
        /\ Configured(ACCESS_TOKEN)
        /\ Done(r) /\ request[r].path = "/calendar.ics"
        /\ request[r].method = "POST" /\ request[r].query = <<>>
        /\ Done(q) /\ request[q].path = "/calendar.ics"
        /\ request[q].method = "GET"
        /\ request[q].query = <<Param("other", "secret123")>>
        /\ reply[q].status = 401

\* C7: when ICS_URL or ACCESS_TOKEN is missing from the environment at
\* startup, the server never answers an inbound request.
C7_NoTrafficWithoutConfiguration ==
    (ICS_URL = Undefined \/ ACCESS_TOKEN = Undefined) =>
        \A r \in Requests : sent[r] = 0

\* The position of a handler, as a number that only grows
Rank(position) ==
    CASE position = "pending" -> 0
      [] position = "awaitFetch" -> 1
      [] position \in {"awaitText", "awaitErrorText"} -> 2
      [] position = "done" -> 3
      [] OTHER -> 0 - 1

\* Every handler stands at a known position; a request has one Response when
\* its handler is done and none before, with status 200, 401, 404 or 500; a
\* handler waiting for the upstream has an enabled step; the server is up as
\* soon as a request has arrived, and it can accept the requests still to come.
C8_StateOk ==
    /\ \A r \in Requests :
        /\ Rank(pc[r]) >= 0
        /\ sent[r] = (IF Done(r) THEN 1 ELSE 0)
        /\ Done(r) => reply[r].status \in {200, 401, 404, 500}
        /\ InFlight(r) => ENABLED HandlerStep(r)
        /\ (serving /\ pc[r] = "pending") =>
               ENABLED (\E req \in InboundRequests : Accept(r, req))
    /\ (\E r \in Requests : pc[r] # "pending") => serving

\* A step never moves a handler back, never takes a Response back, never
\* changes a Response that was returned, and never stops the server.
C8_StepOk ==
    /\ \A r \in Requests :
        /\ Rank(pc'[r]) >= Rank(pc[r])
        /\ sent'[r] >= sent[r]
        /\ Done(r) => (pc'[r] = "done" /\ reply'[r] = reply[r])
    /\ serving => serving'

\* C8: every request is answered at most once, is answered exactly once when
\* its handler has finished, and then with status 200, 401, 404 or 500.  A
\* handler only advances (pending, awaitFetch, awaitText or awaitErrorText,
\* done) and, while it waits for the upstream, can always take its next step
\* when the fetch or the body read completes or fails, so it finishes
\* provided the upstream does.  The server never stops: after any failure a
\* request that has not yet arrived can still be accepted.
C8_OneResponsePerRequest == [](C8_StateOk) /\ [][C8_StepOk]_vars

\* After a request failed with 500 on an unreadable body, a later request
\* got its own response.
C8_Witness ==
    \E r, q \in Requests :
        /\ r # q
        /\ Done(r) /\ reply[r].status = 500 /\ sent[r] = 1
        /\ upstreamResponse[r].status = 200 /\ upstreamResponse[r].bodyRead = "failed"
        /\ Done(q) /\ reply[q].status = 200 /\ sent[q] = 1
        /\ request[q].path = "/calendar.ics"

\* C9: a request to /health is answered 200 with the body 'OK' and no fetch,
\* whatever its method and query, whatever ICS_URL and ACCESS_TOKEN are, and
\* whatever the other requests are doing.
C9_HealthIsAlwaysOk ==
    \A r \in Requests :
        (Done(r) /\ request[r].path = "/health")
        => /\ reply[r].status = 200
           /\ reply[r].body = "OK"
           /\ fetches[r] = 0

\* With nothing configured, a POST to /health without a token was answered.
C9_Witness ==
    \E r \in Requests :
        /\ ICS_URL = Undefined /\ ACCESS_TOKEN = Undefined
        /\ Done(r) /\ request[r].path = "/health"
        /\ request[r].method = "POST" /\ request[r].query = <<>>
        /\ reply[r].status = 200

\* C10: a request whose path is neither /calendar.ics nor /health is answered
\* 404 with the body 'Not Found', whatever its method and query (a valid token
\* included), and has no fetch.
C10_UnknownPathIs404 ==
    \A r \in Requests :
        (Done(r) /\ request[r].path \notin {"/calendar.ics", "/health"})
        => /\ reply[r].status = 404
           /\ reply[r].body = "Not Found"
           /\ fetches[r] = 0

\* An unknown path was answered with and without a valid token.
C10_Witness ==
    \E r, q \in Requests :
        /\ Configured(ACCESS_TOKEN)
        /\ Done(r) /\ request[r].path = "/foo" /\ request[r].method = "POST"
        /\ request[r].query = <<Param("token", ACCESS_TOKEN.val)>>
        /\ Done(q) /\ request[q].path = "/foo" /\ request[q].method = "GET"
        /\ request[q].query = <<>>
        /\ reply[q].status = 404

====
